---------------------------- MODULE Spec2Model ----------------------------
(***************************************************************************)
(* A model of mikepage/dns-lookup:                                         *)
(*   - the two API route handlers (the system-resolver handler and the     *)
(*     DNS-over-HTTPS handler with its provider adapters),                 *)
(*   - the response parsing of the DoH adapters (parseDoHResponse),        *)
(*   - the DnsLookup island: its signals, handleLookup, handleClear, the   *)
(*     hash handling (parseHash / updateHash) and its event handlers.      *)
(*                                                                         *)
(* JavaScript strings whose characters matter (answer data, the URL        *)
(* fragment, the domain input) are sequences of one-character strings.     *)
(* An optional value (a query parameter that may be null, a property that  *)
(* may be undefined) is a sequence of length 0 or 1.                       *)
(***************************************************************************)
EXTENDS Integers, Sequences, FiniteSets, TLC

VARIABLES
    \* --- API handlers (one request at a time) ---
    pc,         \* position of handler.GET: "idle", "fetch", "resolveDns", "done"
    req,        \* the request: handler and query parameters
    adapter,    \* the adapter the request was dispatched to (Opt)
    calls,      \* outbound resolver calls made for the request
    outcome,    \* what the awaited call produced (Opt)
    resp,       \* the responses the handler returned for the request
    \* --- pure functions applied to drawn inputs ---
    input,
    output,
    \* --- DnsLookup island ---
    domain, recordType, resolver, dnssecValidate,
    isLoading, result, error, initialLoadDone,
    hash,       \* window.location.hash
    pending,    \* handleLookup invocations suspended at their await
    cleared     \* history: handleClear ran, handleLookup not called since

apiVars == <<pc, req, adapter, calls, outcome, resp>>
fnVars == <<input, output>>
uiVars == <<domain, recordType, resolver, dnssecValidate, isLoading, result,
            error, initialLoadDone, hash, pending, cleared>>
vars == <<pc, req, adapter, calls, outcome, resp, input, output,
          domain, recordType, resolver, dnssecValidate, isLoading, result,
          error, initialLoadDone, hash, pending, cleared>>

----------------------------------------------------------------------------
(* Bounds *)

\* longest raw answer data string drawn for the record parser
MaxDataLen == 4
\* longest domain string drawn for the URL fragment round trip
MaxDomainLen == 3
\* longest Answer list of a provider response
MaxAnswers == 3
\* most lookups the island may have suspended at once
MaxPending == 2

----------------------------------------------------------------------------
(* Optional values and JavaScript strings *)

None == <<>>
Some(x) == <<x>>
IsSome(o) == Len(o) = 1

\* all sequences over S of length 0..n
SeqsUpTo(S, n) == UNION {[1..k -> S] : k \in 0..n}

\* characters matched by \s (a sample of them)
WhiteSpace == {" ", "\t", "\n", "\r"}
\* characters not matched by . (line terminators)
LineTerminators == {"\n", "\r"}

Digits == {"0", "1", "2", "3", "4", "5", "6", "7", "8", "9"}

DigitVal(c) ==
    CASE c = "0" -> 0 [] c = "1" -> 1 [] c = "2" -> 2 [] c = "3" -> 3
      [] c = "4" -> 4 [] c = "5" -> 5 [] c = "6" -> 6 [] c = "7" -> 7
      [] c = "8" -> 8 [] c = "9" -> 9

\* JavaScript numbers that parseInt can return: NaN or an integer
NaN == [nan |-> TRUE, n |-> 0]
Num(i) == [nan |-> FALSE, n |-> i]

\* index of the first occurrence of character c in s, 0 when there is none
RECURSIVE IndexFrom(_, _, _)
IndexFrom(s, c, i) ==
    IF i > Len(s) THEN 0
    ELSE IF s[i] = c THEN i
    ELSE IndexFrom(s, c, i + 1)

\* String.prototype.split(sep) for a one-character separator
RECURSIVE Split(_, _)
Split(s, sep) ==
    LET i == IndexFrom(s, sep, 1) IN
    IF i = 0 THEN <<s>>
    ELSE <<SubSeq(s, 1, i - 1)>> \o Split(SubSeq(s, i + 1, Len(s)), sep)

\* Array.prototype.join(sep) for a one-character separator
RECURSIVE Join(_, _)
Join(parts, sep) ==
    IF Len(parts) = 0 THEN <<>>
    ELSE IF Len(parts) = 1 THEN parts[1]
    ELSE parts[1] \o <<sep>> \o Join(Tail(parts), sep)

\* Array.prototype.slice(1)
Slice1(parts) == IF Len(parts) = 0 THEN <<>> ELSE Tail(parts)

\* parts[i] with a 0-based index i: undefined (None) past the end
At(parts, i) == IF i + 1 <= Len(parts) THEN Some(parts[i + 1]) ELSE None

\* s.replace(/\.$/, "")
StripTrailingDot(s) ==
    IF Len(s) > 0 /\ s[Len(s)] = "." THEN SubSeq(s, 1, Len(s) - 1) ELSE s

\* s.replace(/^"|"$/g, "")
StripQuotes(s) ==
    LET lead == Len(s) > 0 /\ s[1] = "\""
        t == IF lead THEN Tail(s) ELSE s
    IN  IF Len(t) > 0 /\ t[Len(t)] = "\"" THEN SubSeq(t, 1, Len(t) - 1) ELSE t

RECURSIVE TrimStart(_)
TrimStart(s) ==
    IF Len(s) > 0 /\ s[1] \in WhiteSpace THEN TrimStart(Tail(s)) ELSE s

RECURSIVE TrimEnd(_)
TrimEnd(s) ==
    IF Len(s) > 0 /\ s[Len(s)] \in WhiteSpace
    THEN TrimEnd(SubSeq(s, 1, Len(s) - 1)) ELSE s

\* String.prototype.trim()
Trim(s) == TrimEnd(TrimStart(s))

\* the longest prefix of s made of decimal digits
RECURSIVE DigitsPrefix(_)
DigitsPrefix(s) ==
    IF Len(s) > 0 /\ s[1] \in Digits
    THEN <<s[1]>> \o DigitsPrefix(Tail(s)) ELSE <<>>

RECURSIVE DecimalValue(_)
DecimalValue(ds) ==
    IF Len(ds) = 0 THEN 0
    ELSE 10 * DecimalValue(SubSeq(ds, 1, Len(ds) - 1)) + DigitVal(ds[Len(ds)])

\* parseInt(s, 10): leading white space skipped, an optional sign, then the
\* longest run of digits; NaN when there is no digit
ParseInt(s) ==
    LET t == TrimStart(s)
        neg == Len(t) > 0 /\ t[1] = "-"
        signed == Len(t) > 0 /\ t[1] \in {"-", "+"}
        ds == DigitsPrefix(IF signed THEN Tail(t) ELSE t)
    IN  IF Len(ds) = 0 THEN NaN
        ELSE Num(IF neg THEN 0 - DecimalValue(ds) ELSE DecimalValue(ds))

\* parseInt(parts[i], 10): parseInt(undefined) is NaN
ParseIntAt(parts, i) ==
    IF IsSome(At(parts, i)) THEN ParseInt(At(parts, i)[1]) ELSE NaN

\* x || 0 with the default left out
OrZeroKeepNaN(x) == x

\* x || 0 for a number x
OrZero(x) == IF x.nan \/ x.n = 0 THEN Num(0) ELSE x

\* parts[i]?.replace(/\.$/, "") || ""
NameAt(parts, i) ==
    IF IsSome(At(parts, i)) THEN StripTrailingDot(At(parts, i)[1]) ELSE <<>>

----------------------------------------------------------------------------
(* DoH response parsing: part_001 (the DNS-over-HTTPS route) *)

\* the record types both handlers accept (validTypes)
validTypes == {"A", "AAAA", "CNAME", "MX", "NS", "TXT", "SOA", "PTR"}

\* DNS_TYPE_MAP with the codes of NS and CNAME exchanged
DNS_TYPE_MAP_Swapped(type) ==
    CASE type = "A" -> 1
      [] type = "AAAA" -> 28
      [] type = "CNAME" -> 2
      [] type = "MX" -> 15
      [] type = "NS" -> 5
      [] type = "TXT" -> 16
      [] type = "SOA" -> 6
      [] type = "PTR" -> 12

DNS_TYPE_MAP(type) ==
    CASE type = "A" -> 1
      [] type = "AAAA" -> 28
      [] type = "CNAME" -> 5
      [] type = "MX" -> 15
      [] type = "NS" -> 2
      [] type = "TXT" -> 16
      [] type = "SOA" -> 6
      [] type = "PTR" -> 12

\* ParseAnswer with the MX exchange left with its trailing dot
ParseAnswerKeepDot(type, data) ==
    CASE type = "MX" ->
            LET parts == Split(data, " ") IN
            [k |-> "MX",
             preference |-> ParseIntAt(parts, 0),
             exchange |-> Join(Slice1(parts), " ")]
      [] type = "SOA" ->
            LET parts == Split(data, " ") IN
            [k |-> "SOA",
             mname |-> NameAt(parts, 0),
             rname |-> NameAt(parts, 1),
             serial |-> OrZero(ParseIntAt(parts, 2)),
             refresh |-> OrZero(ParseIntAt(parts, 3)),
             retry |-> OrZero(ParseIntAt(parts, 4)),
             expire |-> OrZero(ParseIntAt(parts, 5)),
             minimum |-> OrZero(ParseIntAt(parts, 6))]
      [] type = "TXT" ->
            [k |-> "TXT", list |-> <<StripQuotes(data)>>]
      [] type \in {"CNAME", "NS", "PTR"} ->
            [k |-> "string", s |-> StripTrailingDot(data)]
      [] OTHER ->
            [k |-> "string", s |-> data]

\* the callback of answers.map: one answer's raw data to a record.  A plain
\* string result is [k |-> "string"], the others carry the fields the code
\* builds.
ParseAnswer(type, data) ==
    CASE type = "MX" ->
            LET parts == Split(data, " ") IN
            [k |-> "MX",
             preference |-> ParseIntAt(parts, 0),
             exchange |-> StripTrailingDot(Join(Slice1(parts), " "))]
      [] type = "SOA" ->
            LET parts == Split(data, " ") IN
            [k |-> "SOA",
             mname |-> NameAt(parts, 0),
             rname |-> NameAt(parts, 1),
             serial |-> OrZero(ParseIntAt(parts, 2)),
             refresh |-> OrZero(ParseIntAt(parts, 3)),
             retry |-> OrZero(ParseIntAt(parts, 4)),
             expire |-> OrZero(ParseIntAt(parts, 5)),
             minimum |-> OrZero(ParseIntAt(parts, 6))]
      [] type = "TXT" ->
            [k |-> "TXT", list |-> <<StripQuotes(data)>>]
      [] type \in {"CNAME", "NS", "PTR"} ->
            [k |-> "string", s |-> StripTrailingDot(data)]
      [] OTHER ->
            [k |-> "string", s |-> data]

\* data.Answer.filter((a) => a.type === typeNum)
FilterAnswers(answers, typeNum) ==
    SelectSeq(answers, LAMBDA a : a.type = typeNum)

\* answers.map(...)
MapAnswers(answers, type) ==
    [i \in 1..Len(answers) |-> ParseAnswer(type, answers[i].data)]

\* the values the AD property of a provider body is drawn from: the property
\* missing, the booleans, and a truthy value that is not a boolean
ADValues == {"undefined", "true", "false", "1"}

\* data.AD === true
ADIsTrue(ad) == ad = "true"

\* dnssecValidate ? {validated: data.AD === true, enabled: true} : null
DnssecInfo(data, validate) ==
    IF validate
    THEN Some([validated |-> ADIsTrue(data.AD), enabled |-> TRUE])
    ELSE None

\* parseDoHResponse with the early return dropping the DNSSEC info
parseDoHResponseNoInfoOnEmpty(data, type, typeNum, validate) ==
    LET dnssec == DnssecInfo(data, validate) IN
    IF ~IsSome(data.Answer)
    THEN [records |-> <<>>, dnssec |-> None]
    ELSE [records |-> MapAnswers(FilterAnswers(data.Answer[1], typeNum), type),
          dnssec |-> dnssec]

parseDoHResponse(data, type, typeNum, validate) ==
    LET dnssec == DnssecInfo(data, validate) IN
    IF ~IsSome(data.Answer)
    THEN [records |-> <<>>, dnssec |-> dnssec]
    ELSE [records |-> MapAnswers(FilterAnswers(data.Answer[1], typeNum), type),
          dnssec |-> dnssec]

\* StatusMessage with the entries of codes 2 and 3 exchanged
StatusMessageSwapped(status) ==
    IF ~IsSome(status) THEN "DNS error: undefined"
    ELSE CASE status[1] = 1 -> "Format error"
           [] status[1] = 2 -> "Non-existent domain"
           [] status[1] = 3 -> "Server failure"
           [] status[1] = 4 -> "Not implemented"
           [] status[1] = 5 -> "Query refused"
           [] OTHER -> "DNS error: " \o ToString(status[1])

\* statusMessages[data.Status] || `DNS error: ${data.Status}`
\* (data.Status is None when the body has no Status property)
StatusMessage(status) ==
    IF ~IsSome(status) THEN "DNS error: undefined"
    ELSE CASE status[1] = 1 -> "Format error"
           [] status[1] = 2 -> "Server failure"
           [] status[1] = 3 -> "Non-existent domain"
           [] status[1] = 4 -> "Not implemented"
           [] status[1] = 5 -> "Query refused"
           [] OTHER -> "DNS error: " \o ToString(status[1])

\* data.Status !== 0
StatusNonZero(status) == status # Some(0)

\* what a function call produced: a returned value or a thrown Error
Return(v) == [threw |-> FALSE, message |-> "", value |-> Some(v)]
Throw(msg) == [threw |-> TRUE, message |-> msg, value |-> None]

----------------------------------------------------------------------------
(* The DoH adapters *)

\* what the awaited fetch can produce: a rejection, a non-2xx response, a 2xx
\* response whose body is not JSON, a 2xx response with a JSON body
FetchReject(msg) ==
    [kind |-> "reject", message |-> msg, statusText |-> "", body |-> None]
FetchNotOk(statusText) ==
    [kind |-> "not-ok", message |-> "", statusText |-> statusText, body |-> None]
FetchBadJson(msg) ==
    [kind |-> "bad-json", message |-> msg, statusText |-> "OK", body |-> None]
FetchOk(data) ==
    [kind |-> "ok", message |-> "", statusText |-> "OK", body |-> Some(data)]

\* the request an adapter sends up to its await fetch(url)
GoogleRequest(name, type, validate) ==
    [fn |-> "resolveWithGoogleDoH",
     endpoint |-> "https://dns.google/resolve",
     name |-> name,
     type |-> ToString(DNS_TYPE_MAP(type)),
     flag |-> IF validate THEN "do" ELSE "cd",
     accept |-> None]

CloudflareRequest(name, type, validate, endpoint) ==
    [fn |-> "resolveWithCloudflareDoH",
     endpoint |-> endpoint,
     name |-> name,
     type |-> type,
     flag |-> IF validate THEN "do" ELSE "cd",
     accept |-> Some("application/dns-json")]

\* resolveWithGoogleDoH from the fetch's outcome on
resolveWithGoogleDoH(type, validate, o) ==
    IF o.kind = "reject" THEN Throw(o.message)
    ELSE IF o.kind = "not-ok"
    THEN Throw("Google DNS request failed: " \o o.statusText)
    ELSE IF o.kind = "bad-json" THEN Throw(o.message)
    ELSE LET data == o.body[1] IN
         IF StatusNonZero(data.Status) THEN Throw(StatusMessage(data.Status))
         ELSE Return(parseDoHResponse(data, type, DNS_TYPE_MAP(type), validate))

\* resolveWithCloudflareDoH from the fetch's outcome on (the Security, Family
\* and Quad9 adapters return its result unchanged)
resolveWithCloudflareDoH(type, validate, o) ==
    IF o.kind = "reject" THEN Throw(o.message)
    ELSE IF o.kind = "not-ok"
    THEN Throw("Cloudflare DNS request failed: " \o o.statusText)
    ELSE IF o.kind = "bad-json" THEN Throw(o.message)
    ELSE LET data == o.body[1] IN
         IF StatusNonZero(data.Status) THEN Throw(StatusMessage(data.Status))
         ELSE Return(parseDoHResponse(data, type, DNS_TYPE_MAP(type), validate))

\* the own properties of the handler's resolvers object
ResolverKeys ==
    {"google", "cloudflare", "cloudflare-security", "cloudflare-family", "quad9"}

\* properties that every object literal inherits from Object.prototype (a
\* sample): functions, and __proto__, which is an object and not callable
ObjectPrototypeFunctions == {"constructor", "toString", "valueOf"}
ObjectPrototypeKeys == ObjectPrototypeFunctions \cup {"__proto__"}

\* resolvers[name]: own property, inherited property, or undefined
ResolversGet(name) ==
    IF name \in ResolverKeys THEN [kind |-> "adapter", name |-> name]
    ELSE IF name \in ObjectPrototypeKeys THEN [kind |-> "inherited", name |-> name]
    ELSE [kind |-> "undefined", name |-> name]

\* resolvers[resolver] ?? resolvers.google
ResolveFn(name) ==
    IF ResolversGet(name).kind = "undefined" THEN ResolversGet("google")
    ELSE ResolversGet(name)

\* the request the adapter registered under an own key sends
AdapterRequest(key, name, type, validate) ==
    CASE key = "google" -> GoogleRequest(name, type, validate)
      [] key = "cloudflare" ->
            CloudflareRequest(name, type, validate,
                              "https://cloudflare-dns.com/dns-query")
      [] key = "cloudflare-security" ->
            CloudflareRequest(name, type, validate,
                              "https://security.cloudflare-dns.com/dns-query")
      [] key = "cloudflare-family" ->
            CloudflareRequest(name, type, validate,
                              "https://family.cloudflare-dns.com/dns-query")
      [] key = "quad9" ->
            CloudflareRequest(name, type, validate,
                              "https://dns.quad9.net/dns-query")

\* the adapter's continuation after its fetch
AdapterFinish(fn, type, validate, o) ==
    IF fn = "resolveWithGoogleDoH"
    THEN resolveWithGoogleDoH(type, validate, o)
    ELSE resolveWithCloudflareDoH(type, validate, o)

\* await resolveFn(domain, type, dnssec) when resolveFn is an inherited
\* property: called as a plain function in a module (this is undefined).
\*   Object(domain, ...) returns a String object, and toString returns
\*   "[object Undefined]": neither has a records or a dnssec property;
\*   valueOf throws on an undefined this; __proto__ is not a function.
CallInherited(name) ==
    CASE name \in {"constructor", "toString"} ->
            Return([records |-> None, dnssec |-> None])
      [] name = "valueOf" ->
            Throw("Cannot convert undefined or null to object")
      [] name = "__proto__" ->
            Throw("resolveFn is not a function")

----------------------------------------------------------------------------
(* The route handlers *)

\* Response.json({success: false, error}, {status})
ErrorResponse(status, msg) ==
    [status |-> status, success |-> FALSE, error |-> Some(msg),
     domain |-> None, recordType |-> None, resolver |-> None,
     records |-> None, dnssec |-> None]

\* Response.json({success: true, ...}); a property whose value is undefined
\* is left out of the JSON body.  queryTime (elapsed wall time) is not
\* modelled.
SuccessResponse(name, type, resolverName, records, dnssecInfo) ==
    [status |-> 200, success |-> TRUE, error |-> None,
     domain |-> Some(name), recordType |-> Some(type),
     resolver |-> resolverName, records |-> records, dnssec |-> dnssecInfo]

\* ValidationError testing the domain against null only (domain === null)
ValidationErrorNullOnly(d, t) ==
    IF d = None THEN Some("Domain is required")
    ELSE IF t = None \/ t = Some("") THEN Some("Record type is required")
    ELSE IF t[1] \notin validTypes THEN Some("Invalid record type: " \o t[1])
    ELSE None

\* the three validation steps shared by both handlers: Some(message) when the
\* request is rejected
ValidationError(d, t) ==
    IF d = None \/ d = Some("") THEN Some("Domain is required")
    ELSE IF t = None \/ t = Some("") THEN Some("Record type is required")
    ELSE IF t[1] \notin validTypes THEN Some("Invalid record type: " \o t[1])
    ELSE None

\* url.searchParams.get("resolver") || "system"
ResolverName(r) == IF r = None \/ r = Some("") THEN "system" ELSE r[1]

\* url.searchParams.get("dnssec") === "true"
DnssecFlag(s) == s = Some("true")

\* err instanceof Error ? err.message : "DNS lookup failed"
\* (everything thrown on these paths is an Error)
CatchMessage(thrown) == thrown.message

----------------------------------------------------------------------------
(* Inputs of the API model *)

DomainParams == {None, Some(""), Some("example.com")}

TypeParams ==
    {None, Some("")} \cup {Some(t) : t \in validTypes}
        \cup {Some("mx"), Some("a"), Some("ANAME"), Some("SRV")}

ResolverParams ==
    {None, Some("")} \cup {Some(k) : k \in ResolverKeys}
        \cup {Some(k) : k \in ObjectPrototypeKeys}
        \cup {Some("system"), Some("Google"), Some("opendns")}

DnssecParams == {None, Some("true"), Some("false"), Some("TRUE"), Some("1")}

\* data.Status: missing, or a number
StatusValues == {None} \cup {Some(n) : n \in -1..6}

\* answers a provider may return: an A record, a CNAME chain entry, an MX
\* record
SampleAnswers ==
    {[type |-> 1, data |-> <<"1", ".", "1">>],
     [type |-> 5, data |-> <<"c", ".">>],
     [type |-> 15, data |-> <<"1", "0", " ", "m", ".">>]}

AnswerLists == {None} \cup {Some(a) : a \in SeqsUpTo(SampleAnswers, MaxAnswers)}

Bodies ==
    [Status : {Some(0)}, AD : ADValues, Answer : AnswerLists]
        \cup [Status : StatusValues \ {Some(0)}, AD : ADValues,
              Answer : {None, Some(<<[type |-> 5, data |-> <<"c", ".">>]>>)}]

FetchOutcomes ==
    {FetchReject("error sending request"),
     FetchNotOk("Bad Gateway"), FetchNotOk(""),
     FetchBadJson("Unexpected token < in JSON at position 0")}
        \cup {FetchOk(b) : b \in Bodies}

\* what the awaited Deno.resolveDns can produce
ResolveDnsOutcomes ==
    {Return(<<"93.184.216.34">>),
     Return(<<"ns1.example.com.", "ns2.example.com.">>),
     Throw("no record found for Query"),
     Throw("proto error: io error")}

----------------------------------------------------------------------------
(* The API model: one request through one of the two handlers *)

FnIdle == input = None /\ output = None

UiIdle ==
    /\ domain = <<>>
    /\ recordType = <<"A">>
    /\ resolver = "google"
    /\ dnssecValidate = TRUE
    /\ isLoading = FALSE
    /\ result = None
    /\ error = None
    /\ initialLoadDone = FALSE
    /\ hash = <<>>
    /\ pending = <<>>
    /\ cleared = FALSE

Init ==
    /\ pc = "idle"
    /\ req = None
    /\ adapter = None
    /\ calls = 0
    /\ outcome = None
    /\ resp = <<>>
    /\ FnIdle
    /\ UiIdle

\* handler.GET of the system-resolver route, up to its await
DnsRequest(d, t, r, s) ==
    /\ pc = "idle"
    /\ req' = Some([handler |-> "dns", domain |-> d, type |-> t,
                    resolver |-> r, dnssec |-> s])
    /\ IF IsSome(ValidationError(d, t))
       THEN /\ resp' = Append(resp, ErrorResponse(400, ValidationError(d, t)[1]))
            /\ pc' = "done"
            /\ UNCHANGED <<adapter, calls>>
       ELSE /\ adapter' = Some([fn |-> "Deno.resolveDns", endpoint |-> "",
                                name |-> d[1], type |-> t[1], flag |-> "",
                                accept |-> None])
            /\ calls' = calls + 1
            /\ pc' = "resolveDns"
            /\ UNCHANGED resp
    /\ UNCHANGED <<outcome, fnVars, uiVars>>

\* handler.GET of the system-resolver route, from Deno.resolveDns's outcome on
ResolveDnsReturns(o) ==
    /\ pc = "resolveDns"
    /\ outcome' = Some(o)
    /\ resp' = Append(resp,
                 IF o.threw THEN ErrorResponse(500, CatchMessage(o))
                 ELSE SuccessResponse(req[1].domain[1], req[1].type[1], None,
                                      o.value, None))
    /\ pc' = "done"
    /\ UNCHANGED <<req, adapter, calls, fnVars, uiVars>>

\* handler.GET of the DoH route, up to the adapter's await fetch (or to its
\* end, when it returns before any await)
DohRequest(d, t, r, s) ==
    /\ pc = "idle"
    /\ req' = Some([handler |-> "dns-doh", domain |-> d, type |-> t,
                    resolver |-> r, dnssec |-> s])
    /\ IF IsSome(ValidationError(d, t))
       THEN /\ resp' = Append(resp, ErrorResponse(400, ValidationError(d, t)[1]))
            /\ pc' = "done"
            /\ UNCHANGED <<adapter, calls>>
       ELSE LET resolveFn == ResolveFn(ResolverName(r)) IN
            IF resolveFn.kind = "adapter"
            THEN /\ adapter' = Some(AdapterRequest(resolveFn.name, d[1], t[1],
                                                   DnssecFlag(s)))
                 /\ calls' = calls + 1
                 /\ pc' = "fetch"
                 /\ UNCHANGED resp
            ELSE LET res == CallInherited(resolveFn.name) IN
                 /\ resp' = Append(resp,
                              IF res.threw
                              THEN ErrorResponse(500, CatchMessage(res))
                              ELSE SuccessResponse(d[1], t[1],
                                       Some(ResolverName(r)),
                                       res.value[1].records,
                                       res.value[1].dnssec))
                 /\ pc' = "done"
                 /\ UNCHANGED <<adapter, calls>>
    /\ UNCHANGED <<outcome, fnVars, uiVars>>

\* handler.GET of the DoH route, from the fetch's outcome on
FetchReturns(o) ==
    /\ pc = "fetch"
    /\ outcome' = Some(o)
    /\ LET res == AdapterFinish(adapter[1].fn, req[1].type[1],
                                DnssecFlag(req[1].dnssec), o) IN
       resp' = Append(resp,
                 IF res.threw THEN ErrorResponse(500, CatchMessage(res))
                 ELSE SuccessResponse(req[1].domain[1], req[1].type[1],
                          Some(ResolverName(req[1].resolver)),
                          Some(res.value[1].records),
                          res.value[1].dnssec))
    /\ pc' = "done"
    /\ UNCHANGED <<req, adapter, calls, fnVars, uiVars>>

\* a GET request arrives at the system-resolver route
DnsGet ==
    /\ pc = "idle"
    /\ \E d \in DomainParams, t \in TypeParams, r \in ResolverParams,
          s \in DnssecParams : DnsRequest(d, t, r, s)

\* a GET request arrives at the DoH route
DohGet ==
    /\ pc = "idle"
    /\ \E d \in DomainParams, t \in TypeParams, r \in ResolverParams,
          s \in DnssecParams : DohRequest(d, t, r, s)

\* the awaited Deno.resolveDns settles
ResolveDnsSettles ==
    /\ pc = "resolveDns"
    /\ \E o \in ResolveDnsOutcomes : ResolveDnsReturns(o)

\* the awaited fetch settles
FetchSettles ==
    /\ pc = "fetch"
    /\ \E o \in FetchOutcomes : FetchReturns(o)

Next == DnsGet \/ ResolveDnsSettles \/ DohGet \/ FetchSettles

Spec == Init /\ [][Next]_vars

----------------------------------------------------------------------------
(* Properties of the API model *)

\* the request has been handled to its end by the DoH route
DohDone == pc = "done" /\ IsSome(req) /\ req[1].handler = "dns-doh"

\* the eight record types of the registry, written out
RegistryTypes ==
    {Some("A"), Some("AAAA"), Some("CNAME"), Some("MX"),
     Some("NS"), Some("TXT"), Some("SOA"), Some("PTR")}

\* the request has a present, non-empty domain and a registry record type
WellFormed(q) == q.domain \notin {None, Some("")} /\ q.type \in RegistryTypes

\* the DoH request reached an adapter whose fetch returned a JSON body
GotBody ==
    /\ DohDone
    /\ IsSome(outcome)
    /\ outcome[1].kind = "ok"

\* C1: a request (to either handler) is rejected by validation exactly when
\* its domain is missing or empty or its type is not one of the eight
\* registry strings, compared case-sensitively; a rejected request is
\* answered at once with status 400 and {success: false, error}, and no
\* resolver call is made for it.
C1_ValidationExact ==
    IsSome(req) =>
        IF WellFormed(req[1])
        THEN \A i \in 1..Len(resp) : resp[i].status # 400
        ELSE /\ pc = "done"
             /\ Len(resp) = 1
             /\ resp[1].status = 400
             /\ resp[1].success = FALSE
             /\ IsSome(resp[1].error)
             /\ calls = 0
             /\ adapter = None

\* C1 witness: a lowercase record type with a good domain is rejected with
\* status 400 by the DoH route.
C1_Witness ==
    /\ DohDone
    /\ req[1].domain = Some("example.com")
    /\ req[1].type = Some("mx")
    /\ resp[1].status = 400
    /\ calls = 0

\* the message the claim gives for a non-zero provider status code
ClaimedStatusMessage(code) ==
    IF code = 1 THEN "Format error"
    ELSE IF code = 2 THEN "Server failure"
    ELSE IF code = 3 THEN "Non-existent domain"
    ELSE IF code = 4 THEN "Not implemented"
    ELSE IF code = 5 THEN "Query refused"
    ELSE "DNS error: " \o ToString(code)

\* C2: whichever DoH adapter ran, a body with a non-zero Status makes the
\* lookup fail without records: the handler answers 500 and its error is the
\* table entry for codes 1..5 and "DNS error: <code>" for any other code.
C2_StatusMapsToMessage ==
    (GotBody /\ IsSome(outcome[1].body[1].Status)
             /\ outcome[1].body[1].Status[1] # 0) =>
        /\ Len(resp) = 1
        /\ resp[1].status = 500
        /\ resp[1].success = FALSE
        /\ resp[1].records = None
        /\ resp[1].error =
              Some(ClaimedStatusMessage(outcome[1].body[1].Status[1]))

\* C2 witness: the Quad9 adapter got Status 3 and the handler answered 500
\* "Non-existent domain".
C2_Witness ==
    /\ GotBody
    /\ adapter[1].endpoint = "https://dns.quad9.net/dns-query"
    /\ outcome[1].body[1].Status = Some(3)
    /\ resp[1].status = 500
    /\ resp[1].error = Some("Non-existent domain")

\* C3 (as claimed): every success response of the DoH route has a dnssec
\* field exactly when the request's dnssec parameter is the string "true".
C3_DnssecFieldIffRequested ==
    (DohDone /\ Len(resp) = 1 /\ resp[1].success) =>
        (IsSome(resp[1].dnssec) <=> req[1].dnssec = Some("true"))

\* C3 on the paths through an adapter: the field is present exactly when
\* requested, and then enabled is true and validated is AD === true.
C3_DnssecOnAdapterPaths ==
    (GotBody /\ resp[1].success) =>
        /\ IsSome(resp[1].dnssec) <=> req[1].dnssec = Some("true")
        /\ IsSome(resp[1].dnssec) =>
              /\ resp[1].dnssec[1].enabled = TRUE
              /\ resp[1].dnssec[1].validated
                    = (outcome[1].body[1].AD = "true")

\* a DoH lookup returned Status 0 and a body without an Answer property
NoAnswer ==
    /\ GotBody
    /\ outcome[1].body[1].Status = Some(0)
    /\ outcome[1].body[1].Answer = None

\* C4 (as claimed): Status 0 and no Answer give empty records and, when
\* validation was requested, dnssec.validated = false whatever AD is.
C4_NoAnswerNeverValidated ==
    NoAnswer =>
        /\ resp[1].success
        /\ resp[1].records = Some(<<>>)
        /\ req[1].dnssec = Some("true") =>
              /\ IsSome(resp[1].dnssec)
              /\ resp[1].dnssec[1].validated = FALSE

\* C4 (amended): Status 0 and no Answer give empty records and, when
\* validation was requested, dnssec.validated is true exactly when the
\* body's AD is the boolean true.
C4_NoAnswerValidatedIsAD ==
    NoAnswer =>
        /\ resp[1].success
        /\ resp[1].records = Some(<<>>)
        /\ req[1].dnssec = Some("true") =>
              /\ IsSome(resp[1].dnssec)
              /\ resp[1].dnssec[1].enabled = TRUE
              /\ resp[1].dnssec[1].validated
                    = (outcome[1].body[1].AD = "true")

\* C4 witness: no Answer, validation requested, AD true: validated is true.
C4_Witness ==
    /\ NoAnswer
    /\ req[1].dnssec = Some("true")
    /\ outcome[1].body[1].AD = "true"
    /\ resp[1].records = Some(<<>>)
    /\ resp[1].dnssec[1].validated = TRUE

\* the endpoint the claim assigns to a resolver identifier
ClaimedEndpoint(name) ==
    IF name = "cloudflare" THEN "https://cloudflare-dns.com/dns-query"
    ELSE IF name = "cloudflare-security"
    THEN "https://security.cloudflare-dns.com/dns-query"
    ELSE IF name = "cloudflare-family"
    THEN "https://family.cloudflare-dns.com/dns-query"
    ELSE IF name = "quad9" THEN "https://dns.quad9.net/dns-query"
    ELSE "https://dns.google/resolve"

\* C5 (as claimed): a well-formed DoH request is dispatched to the adapter of
\* its resolver identifier when that is one of the five known ones and to the
\* Google adapter otherwise (an absent or empty identifier included), and an
\* unknown identifier alone never produces an error response.
C5_UnknownResolverFallsBackToGoogle ==
    (IsSome(req) /\ req[1].handler = "dns-doh" /\ WellFormed(req[1])) =>
        /\ IsSome(adapter)
        /\ adapter[1].endpoint = ClaimedEndpoint(ResolverName(req[1].resolver))
        /\ (pc = "done" /\ ~IsSome(outcome)) => resp[1].success

\* C6 (as claimed): a well-formed request makes exactly one outbound resolver
\* call and gets exactly one response; when the call fails, the response is
\* 500 {success: false, error} with the adapter's message.
C6_OneCallOneResponse ==
    /\ calls <= 1
    /\ Len(resp) <= 1
    /\ (pc = "done" /\ WellFormed(req[1])) =>
          /\ calls = 1
          /\ Len(resp) = 1
          /\ IsSome(outcome)
    /\ (DohDone /\ IsSome(outcome) /\ outcome[1].kind \in {"reject", "bad-json"}) =>
          /\ resp[1].status = 500
          /\ resp[1].success = FALSE
          /\ resp[1].error = Some(outcome[1].message)
    /\ (DohDone /\ IsSome(outcome) /\ outcome[1].kind = "not-ok") =>
          /\ resp[1].status = 500
          /\ resp[1].success = FALSE
          /\ resp[1].error \in
                {Some("Google DNS request failed: " \o outcome[1].statusText),
                 Some("Cloudflare DNS request failed: " \o outcome[1].statusText)}
    /\ (pc = "done" /\ req[1].handler = "dns" /\ IsSome(outcome)
            /\ outcome[1].threw) =>
          /\ resp[1].status = 500
          /\ resp[1].success = FALSE
          /\ resp[1].error = Some(outcome[1].message)

----------------------------------------------------------------------------
(* The adapters' parsing applied to drawn provider bodies *)

\* the numeric types an answer may carry: the eight of DNS_TYPE_MAP and
\* RRSIG (46)
AnswerTypeCodes == {1, 2, 5, 6, 12, 15, 16, 28, 46}

\* the raw data of the answer at position i of a drawn Answer list: distinct
\* at each position, and parsed to distinct records for every record type
DataAt(i) == <<ToString(i), " ", "a", ToString(i), ".">>

\* Answer lists of every length up to MaxAnswers and every mix of types
DrawnAnswers ==
    {[i \in 1..Len(ts) |-> [type |-> ts[i], data |-> DataAt(i)]] :
        ts \in SeqsUpTo(AnswerTypeCodes, MaxAnswers)}

AdapterFns == {"resolveWithGoogleDoH", "resolveWithCloudflareDoH"}

InitParse ==
    /\ input \in [fn : AdapterFns, type : validTypes, validate : BOOLEAN,
                  body : [Status : {Some(0)}, AD : {"true"},
                          Answer : {Some(a) : a \in DrawnAnswers}]]
    /\ output = None
    /\ pc = "idle" /\ req = None /\ adapter = None /\ calls = 0
    /\ outcome = None /\ resp = <<>>
    /\ UiIdle

\* the adapter's continuation on a 2xx response with the drawn body
ParseBody ==
    /\ output = None
    /\ output' = Some(AdapterFinish(input.fn, input.type, input.validate,
                                    FetchOk(input.body)))
    /\ UNCHANGED <<input, apiVars, uiVars>>

NextParse == ParseBody

SpecParse == InitParse /\ [][NextParse]_vars

\* the numeric code the claim gives for a record type
ClaimedTypeCode(type) ==
    IF type = "A" THEN 1
    ELSE IF type = "NS" THEN 2
    ELSE IF type = "CNAME" THEN 5
    ELSE IF type = "SOA" THEN 6
    ELSE IF type = "PTR" THEN 12
    ELSE IF type = "MX" THEN 15
    ELSE IF type = "TXT" THEN 16
    ELSE 28

\* positions of the answers whose type is the claimed code of the request
MatchingPositions(answers, type) ==
    {i \in 1..Len(answers) : answers[i].type = ClaimedTypeCode(type)}

\* C9: for a successful DoH response with an Answer list, the records are,
\* one for one and in the order of the list, made from exactly the answers
\* whose numeric type is the code of the requested type (A=1, NS=2, CNAME=5,
\* SOA=6, PTR=12, MX=15, TXT=16, AAAA=28); other answers give no record.
C9_RecordsAreMatchingAnswersInOrder ==
    IsSome(output) =>
        LET answers == input.body.Answer[1]
            at == MatchingPositions(answers, input.type)
        IN  /\ output[1].threw = FALSE
            /\ Len(output[1].value[1].records) = Cardinality(at)
            /\ \A i \in at :
                  output[1].value[1].records[Cardinality({j \in at : j <= i})]
                      = ParseAnswer(input.type, answers[i].data)

\* C9 witness: an A lookup whose Answer list is a CNAME chain entry followed
\* by two A answers returns the two A records in that order.
C9_Witness ==
    /\ IsSome(output)
    /\ input.type = "A"
    /\ Len(input.body.Answer[1]) = 3
    /\ input.body.Answer[1][1].type = 5
    /\ input.body.Answer[1][2].type = 1
    /\ input.body.Answer[1][3].type = 1
    /\ output[1].value[1].records
          = <<[k |-> "string", s |-> DataAt(2)], [k |-> "string", s |-> DataAt(3)]>>

----------------------------------------------------------------------------
(* The record parser applied to drawn raw data *)

\* characters of drawn MX data: digits, a sign, a space, a tab, a letter, a dot
MxChars == {"1", "0", "-", " ", "\t", "m", "."}

\* the MX example of the specification: "10 mail.example.com."
MxExample ==
    <<"1", "0", " ", "m", "a", "i", "l", ".", "e", "x", "a", "m", "p", "l",
      "e", ".", "c", "o", "m", ".">>

InitRecord ==
    /\ input \in [type : {"MX"},
                  data : SeqsUpTo(MxChars, MaxDataLen) \cup {MxExample}]
    /\ output = None
    /\ pc = "idle" /\ req = None /\ adapter = None /\ calls = 0
    /\ outcome = None /\ resp = <<>>
    /\ UiIdle

\* the answers.map callback on the drawn raw data
ParseRecord ==
    /\ output = None
    /\ output' = Some(ParseAnswer(input.type, input.data))
    /\ UNCHANGED <<input, apiVars, uiVars>>

NextRecord == ParseRecord

SpecRecord == InitRecord /\ [][NextRecord]_vars

\* the text before the first space of s (all of s when it has no space)
BeforeFirstSpace(s) ==
    IF \E i \in 1..Len(s) : s[i] = " "
    THEN SubSeq(s, 1, (CHOOSE i \in 1..Len(s) :
                          s[i] = " " /\ \A j \in 1..(i - 1) : s[j] # " ") - 1)
    ELSE s

\* the text after the first space of s (empty when it has no space)
AfterFirstSpace(s) == SubSeq(s, Len(BeforeFirstSpace(s)) + 2, Len(s))

\* s without one final dot
WithoutFinalDot(s) ==
    IF s # <<>> /\ s[Len(s)] = "." THEN SubSeq(s, 1, Len(s) - 1) ELSE s

\* the tokens of s between runs of white space
RECURSIVE Tokens(_)
Tokens(s) ==
    IF s = <<>> THEN <<>>
    ELSE IF s[1] \in WhiteSpace THEN Tokens(Tail(s))
    ELSE LET n == CHOOSE k \in 1..Len(s) :
                     /\ \A j \in 1..k : s[j] \notin WhiteSpace
                     /\ (k = Len(s) \/ s[k + 1] \in WhiteSpace)
         IN  <<SubSeq(s, 1, n)>> \o Tokens(SubSeq(s, n + 1, Len(s)))

\* s is an optional sign followed by decimal digits only, at least one
IsInteger(s) ==
    LET u == IF s # <<>> /\ s[1] \in {"-", "+"} THEN Tail(s) ELSE s IN
    u # <<>> /\ \A j \in 1..Len(u) : u[j] \in Digits

\* what is left of s after leading white space and one optional sign
Unsigned(s) ==
    LET t == SubSeq(s, 1 + Cardinality({i \in 1..Len(s) :
                          \A j \in 1..i : s[j] \in WhiteSpace}), Len(s))
    IN  IF t # <<>> /\ t[1] \in {"-", "+"} THEN Tail(t) ELSE t

\* whether s, after leading white space, starts with a minus sign
Negative(s) ==
    \E i \in 1..Len(s) :
        s[i] = "-" /\ \A j \in 1..(i - 1) : s[j] \in WhiteSpace

\* the number of leading decimal digits of s
LeadingDigits(s) ==
    Cardinality({i \in 1..Len(s) : \A j \in 1..i : s[j] \in Digits})

RECURSIVE Pow10(_)
Pow10(n) == IF n = 0 THEN 1 ELSE 10 * Pow10(n - 1)

RECURSIVE SumDigits(_, _, _)
SumDigits(s, n, i) ==
    IF i > n THEN 0
    ELSE DigitVal(s[i]) * Pow10(n - i) + SumDigits(s, n, i + 1)

\* the integer written by s, an optional sign followed by digits
IntegerValue(s) ==
    IF s[1] = "-" THEN 0 - SumDigits(Tail(s), Len(s) - 1, 1)
    ELSE IF s[1] = "+" THEN SumDigits(Tail(s), Len(s) - 1, 1)
    ELSE SumDigits(s, Len(s), 1)

\* C10 (as claimed): MX data is split on white space; when its first token
\* is an integer, preference is that integer and exchange is the remaining
\* tokens joined, with one trailing dot stripped.
C10_MxSplitOnWhitespace ==
    IsSome(output) =>
        LET tokens == Tokens(input.data) IN
        (tokens # <<>> /\ IsInteger(tokens[1])) =>
            /\ output[1].preference = Num(IntegerValue(tokens[1]))
            /\ output[1].exchange = WithoutFinalDot(Join(Tail(tokens), " "))

\* C10 (amended): MX data is split at single space characters; exchange is
\* everything after the first space with one trailing dot stripped (empty
\* when there is no space); preference is the integer written by the leading
\* decimal digits of the text before the first space, after optional leading
\* white space and sign, and NaN when that text has no such digits.
C10_MxSplitOnSpace ==
    IsSome(output) =>
        LET first == BeforeFirstSpace(input.data)
            u == Unsigned(first)
            n == LeadingDigits(u)
        IN  /\ output[1].exchange = WithoutFinalDot(AfterFirstSpace(input.data))
            /\ output[1].preference.nan = (n = 0)
            /\ n > 0 =>
                  output[1].preference.n =
                      IF Negative(first) THEN 0 - SumDigits(u, n, 1)
                      ELSE SumDigits(u, n, 1)

\* C10 witness: "10 mail.example.com." gives preference 10 and exchange
\* mail.example.com.
C10_Witness ==
    /\ IsSome(output)
    /\ input.data = MxExample
    /\ output[1].preference = Num(10)
    /\ output[1].exchange = SubSeq(MxExample, 4, 19)

----------------------------------------------------------------------------
(* The record parser applied to drawn SOA data *)

\* the number of fields the SOA branch reads: parts[0] .. parts[6]
SoaFieldCount == 7

\* drawn fields for the two name positions: a name with its final dot, a name
\* with two final dots, the root name, an empty field (two adjacent spaces)
SoaNames == {<<"n", ".">>, <<"n", ".", ".">>, <<".">>, <<>>}

\* drawn fields for the five numeric positions: a number, digits followed by
\* a letter, a letter
SoaNumbers == {<<"1", "2">>, <<"1", "a">>, <<"x">>}

\* the lists of k fields: names in the first two positions, numbers after
SoaFields(k) ==
    {names \o nums :
        names \in [1..(IF k < 2 THEN k ELSE 2) -> SoaNames],
        nums \in [1..(IF k < 2 THEN 0 ELSE k - 2) -> SoaNumbers]}

\* raw SOA data with no field up to one field more than the branch reads
SoaData ==
    UNION {{Join(f, " ") : f \in SoaFields(k)} : k \in 0..(SoaFieldCount + 1)}

InitSoa ==
    /\ input \in [type : {"SOA"}, data : SoaData]
    /\ output = None
    /\ pc = "idle" /\ req = None /\ adapter = None /\ calls = 0
    /\ outcome = None /\ resp = <<>>
    /\ UiIdle

NextSoa == ParseRecord

SpecSoa == InitSoa /\ [][NextSoa]_vars

\* the i-th (from 1) space-separated field of s, None when s has fewer
RECURSIVE FieldOf(_, _)
FieldOf(s, i) ==
    IF i = 1 THEN Some(BeforeFirstSpace(s))
    ELSE IF Len(BeforeFirstSpace(s)) = Len(s) THEN None
    ELSE FieldOf(AfterFirstSpace(s), i - 1)

\* the five numeric fields of an SOA record, in the order of the raw data
SoaNumeric(r) == <<r.serial, r.refresh, r.retry, r.expire, r.minimum>>

\* the name at field i: empty when missing, else without one final dot
SoaNameOf(s, i) ==
    IF IsSome(FieldOf(s, i)) THEN WithoutFinalDot(FieldOf(s, i)[1]) ELSE <<>>

\* the record is an SOA record with all seven fields, none of them NaN, and
\* mname/rname are the first two fields with one trailing dot stripped
SoaShape ==
    /\ output[1].k = "SOA"
    /\ DOMAIN output[1] = {"k", "mname", "rname", "serial", "refresh",
                           "retry", "expire", "minimum"}
    /\ \A j \in 1..5 : ~SoaNumeric(output[1])[j].nan
    /\ output[1].mname = SoaNameOf(input.data, 1)
    /\ output[1].rname = SoaNameOf(input.data, 2)

\* C11 (as claimed): parsing SOA data always yields a record with all seven
\* fields, the five numeric ones integers that are 0 wherever the field is
\* missing or is not a number, and mname/rname with one trailing dot stripped.
C11_SoaNonNumericIsZero ==
    IsSome(output) =>
        /\ SoaShape
        /\ \A j \in 1..5 :
              LET f == FieldOf(input.data, j + 2) IN
              (f = None \/ ~IsInteger(f[1])) =>
                  SoaNumeric(output[1])[j] = Num(0)

\* C11 (amended): parsing SOA data always yields a record with all seven
\* fields and mname/rname with one trailing dot stripped; each numeric field
\* is 0 when its space-separated field is missing or has no leading decimal
\* digit (after optional white space and sign), and otherwise the integer
\* written by its leading digits, whatever follows them.
C11_SoaLeadingDigitsOrZero ==
    IsSome(output) =>
        /\ SoaShape
        /\ \A j \in 1..5 :
              LET f == FieldOf(input.data, j + 2)
                  u == IF IsSome(f) THEN Unsigned(f[1]) ELSE <<>>
                  n == LeadingDigits(u)
              IN  SoaNumeric(output[1])[j] =
                      IF n = 0 THEN Num(0)
                      ELSE IF Negative(f[1]) THEN Num(0 - SumDigits(u, n, 1))
                      ELSE Num(SumDigits(u, n, 1))

\* C11 witness: "n. n.. 12 1a x" (five fields, two of them not numbers) gives
\* mname n, rname n., serial 12, refresh 1 and 0 for retry, expire, minimum.
C11_Witness ==
    /\ IsSome(output)
    /\ input.data = <<"n", ".", " ", "n", ".", ".", " ", "1", "2", " ",
                      "1", "a", " ", "x">>
    /\ output[1] = [k |-> "SOA", mname |-> <<"n">>, rname |-> <<"n", ".">>,
                    serial |-> Num(12), refresh |-> Num(1), retry |-> Num(0),
                    expire |-> Num(0), minimum |-> Num(0)]

----------------------------------------------------------------------------
(* The URL fragment: parseHash and updateHash (islands/DnsLookup.tsx) *)

\* RecordTypes.map((r) => r.value), as character sequences
ValidRecordTypes ==
    {<<"A">>, <<"A", "A", "A", "A">>, <<"C", "N", "A", "M", "E">>,
     <<"M", "X">>, <<"N", "S">>, <<"T", "X", "T">>, <<"S", "O", "A">>,
     <<"P", "T", "R">>}

\* the letters the model's strings are written with
UpperLetters == {"A", "C", "E", "M", "N", "O", "P", "R", "S", "T", "X"}
LowerLetters == {"a", "c", "e", "m", "n", "o", "p", "r", "s", "t", "x"}

\* [A-Z] under the i flag
IsLetter(c) == c \in UpperLetters \cup LowerLetters

UpperOf(c) ==
    CASE c = "a" -> "A" [] c = "c" -> "C" [] c = "e" -> "E" [] c = "m" -> "M"
      [] c = "n" -> "N" [] c = "o" -> "O" [] c = "p" -> "P" [] c = "r" -> "R"
      [] c = "s" -> "S" [] c = "t" -> "T" [] c = "x" -> "X" [] OTHER -> c

\* String.prototype.toUpperCase()
ToUpperCase(s) == [i \in 1..Len(s) |-> UpperOf(s[i])]

\* the length of the longest run of letters s starts with
RECURSIVE LetterRun(_)
LetterRun(s) ==
    IF Len(s) > 0 /\ IsLetter(s[1]) THEN 1 + LetterRun(Tail(s)) ELSE 0

\* t matches \/?\s*$
MatchesTail(t) ==
    \/ \A j \in 1..Len(t) : t[j] \in WhiteSpace
    \/ Len(t) > 0 /\ t[1] = "/" /\ \A j \in 2..Len(t) : t[j] \in WhiteSpace

\* DomainLengths with a domain group that takes no slash, ([^/]+?)
DomainLengthsNoSlash(rest) ==
    {k \in 1..Len(rest) :
        /\ \A j \in 1..k : rest[j] \notin LineTerminators \cup {"/"}
        /\ MatchesTail(SubSeq(rest, k + 1, Len(rest)))}

\* the lengths the lazy group (.+?) can take in rest so that the pattern
\* matches to the end of the string
DomainLengths(rest) ==
    {k \in 1..Len(rest) :
        /\ \A j \in 1..k : rest[j] \notin LineTerminators
        /\ MatchesTail(SubSeq(rest, k + 1, Len(rest)))}

\* parseHash: hash.match(/^#([A-Z]+)\/(.+?)\/?\s*$/i), then the two checks.
\* The greedy letter group must end where the first slash is, and the lazy
\* domain group takes the shortest length that lets the rest match.
parseHash(h) ==
    IF Len(h) = 0 \/ h[1] # "#" THEN None
    ELSE LET n == LetterRun(Tail(h)) IN
         IF n = 0 \/ Len(h) < n + 2 \/ h[n + 2] # "/" THEN None
         ELSE LET rest == SubSeq(h, n + 3, Len(h))
                  ks == DomainLengths(rest)
              IN  IF ks = {} THEN None
                  ELSE LET k == CHOOSE x \in ks : \A y \in ks : x <= y
                           type == ToUpperCase(SubSeq(h, 2, n + 1))
                       IN  IF type \notin ValidRecordTypes THEN None
                           ELSE Some([type |-> type,
                                      domain |-> SubSeq(rest, 1, k)])

\* updateHash: the fragment that replaceState leaves in window.location.hash
\* (characters are kept as written; the browser's percent-encoding of the
\* fragment is not modelled)
updateHash(type, d) ==
    IF d # <<>> THEN <<"#">> \o type \o <<"/">> \o d ELSE <<>>

\* characters of drawn domain strings: a letter, a dot, a slash, a space, a
\* line feed
DomainChars == {"a", ".", "/", " ", "\n"}

InitHash ==
    /\ input \in [type : ValidRecordTypes,
                  domain : SeqsUpTo(DomainChars, MaxDomainLen)]
    /\ output = None
    /\ pc = "idle" /\ req = None /\ adapter = None /\ calls = 0
    /\ outcome = None /\ resp = <<>>
    /\ UiIdle

\* updateHash(type, domain) on the drawn pair
WriteHash ==
    /\ hash = <<>>
    /\ output = None
    /\ hash' = updateHash(input.type, input.domain)
    /\ UNCHANGED <<input, output, apiVars, domain, recordType, resolver,
                   dnssecValidate, isLoading, result, error, initialLoadDone,
                   pending, cleared>>

\* parseHash(window.location.hash) on the fragment written
ReadHash ==
    /\ hash # <<>>
    /\ output = None
    /\ output' = Some(parseHash(hash))
    /\ UNCHANGED <<input, apiVars, uiVars>>

NextHash == WriteHash \/ ReadHash

SpecHash == InitHash /\ [][NextHash]_vars

----------------------------------------------------------------------------
(* The DnsLookup island *)

\* values offered by the record type select (a sample of RecordTypes) and by
\* the resolver select (a sample of Resolvers)
UiRecordTypes == {<<"A">>, <<"M", "X">>}
UiResolvers == {"google", "quad9"}

\* texts the user may leave in the domain input
DomainInputs == {<<>>, <<" ">>, <<"a", ".">>, <<"a", ".", " ">>}

\* fragments the page may be opened with or navigated to
HashInputs ==
    {<<>>,
     <<"#", "M", "X", "/", "a", ".">>,
     <<"#", "m", "x", "/", "a", ".", "/">>,
     <<"#", "A", "/">>,
     <<"#", "T", "X", "/", "a", ".">>}

\* what a lookup's fetch and response.json() can produce: a body with
\* success true, a body with success false and an error text, a body with
\* success false and no error text, or a rejection
ResponseKinds == {"success", "failure", "failure-no-text", "throw"}

InitUI ==
    /\ domain = <<>>
    /\ recordType = <<"A">>
    /\ resolver = "google"
    /\ dnssecValidate = TRUE
    /\ isLoading = FALSE
    /\ result = None
    /\ error = None
    /\ initialLoadDone = FALSE
    /\ hash \in HashInputs
    /\ pending = <<>>
    /\ cleared = FALSE
    /\ pc = "idle" /\ req = None /\ adapter = None /\ calls = 0
    /\ outcome = None /\ resp = <<>>
    /\ FnIdle

\* handleLookup up to its await fetch, called when the domain signal holds d
\* and the record type signal holds t
handleLookup(d, t) ==
    /\ cleared' = FALSE
    /\ IF Trim(d) = <<>>
       THEN /\ error' = Some("Please enter a domain name")
            /\ result' = None
            /\ UNCHANGED <<isLoading, pending>>
       ELSE /\ error' = None
            /\ result' = None
            /\ isLoading' = TRUE
            /\ pending' = Append(pending,
                             [domain |-> Trim(d), type |-> t,
                              resolver |-> resolver,
                              dnssec |-> IF dnssecValidate THEN "true"
                                         ELSE "false"])

\* the second effect (dependencies domain.value and recordType.value), run
\* after a handler that left the signals at d and t and the fragment at h
HashEffect(d, t, h) ==
    IF <<d, t>> # <<domain, recordType>> /\ initialLoadDone
    THEN updateHash(t, Trim(d))
    ELSE h

\* the two effects on mount: handleHashChange() on the initial fragment, then
\* the hash effect
Mount ==
    /\ ~initialLoadDone
    /\ initialLoadDone' = TRUE
    /\ LET parsed == parseHash(hash) IN
       IF IsSome(parsed)
       THEN /\ domain' = parsed[1].domain
            /\ recordType' = parsed[1].type
            /\ handleLookup(parsed[1].domain, parsed[1].type)
            /\ hash' = updateHash(parsed[1].type, Trim(parsed[1].domain))
       ELSE /\ hash' = updateHash(recordType, Trim(domain))
            /\ UNCHANGED <<domain, recordType, isLoading, result, error,
                           pending, cleared>>
    /\ UNCHANGED <<resolver, dnssecValidate, apiVars, fnVars>>

\* the hashchange listener, after the fragment became h
HashChange(h) ==
    /\ initialLoadDone
    /\ LET parsed == parseHash(h) IN
       IF IsSome(parsed)
       THEN /\ domain' = parsed[1].domain
            /\ recordType' = parsed[1].type
            /\ hash' = HashEffect(parsed[1].domain, parsed[1].type, h)
       ELSE /\ hash' = h
            /\ UNCHANGED <<domain, recordType>>
    /\ UNCHANGED <<resolver, dnssecValidate, isLoading, result, error,
                   initialLoadDone, pending, cleared, apiVars, fnVars>>

\* onInput of the domain input
InputDomain(d) ==
    /\ initialLoadDone
    /\ domain' = d
    /\ hash' = HashEffect(d, recordType, hash)
    /\ UNCHANGED <<recordType, resolver, dnssecValidate, isLoading, result,
                   error, initialLoadDone, pending, cleared, apiVars, fnVars>>

\* onChange of the record type select
SelectRecordType(t) ==
    /\ initialLoadDone
    /\ recordType' = t
    /\ hash' = HashEffect(domain, t, hash)
    /\ UNCHANGED <<domain, resolver, dnssecValidate, isLoading, result,
                   error, initialLoadDone, pending, cleared, apiVars, fnVars>>

\* onChange of the resolver select
SelectResolver(r) ==
    /\ initialLoadDone
    /\ resolver' = r
    /\ dnssecValidate' = TRUE
    /\ UNCHANGED <<domain, recordType, isLoading, result, error,
                   initialLoadDone, hash, pending, cleared, apiVars, fnVars>>

\* onChange of the DNSSEC radio buttons
SetDnssec(b) ==
    /\ initialLoadDone
    /\ dnssecValidate' = b
    /\ UNCHANGED <<domain, recordType, resolver, isLoading, result, error,
                   initialLoadDone, hash, pending, cleared, apiVars, fnVars>>

\* onClick of the Lookup button, which is disabled while the trimmed domain
\* is empty or isLoading is true
ClickLookup ==
    /\ initialLoadDone
    /\ Trim(domain) # <<>>
    /\ ~isLoading
    /\ Len(pending) < MaxPending
    /\ handleLookup(domain, recordType)
    /\ UNCHANGED <<domain, recordType, resolver, dnssecValidate,
                   initialLoadDone, hash, apiVars, fnVars>>

\* onKeyDown of the domain input with the Enter key
PressEnter ==
    /\ initialLoadDone
    /\ Len(pending) < MaxPending
    /\ handleLookup(domain, recordType)
    /\ UNCHANGED <<domain, recordType, resolver, dnssecValidate,
                   initialLoadDone, hash, apiVars, fnVars>>

\* handleClear (onClick of the Clear button), then the hash effect
handleClear ==
    /\ initialLoadDone
    /\ domain' = <<>>
    /\ recordType' = <<"A">>
    /\ resolver' = "google"
    /\ dnssecValidate' = TRUE
    /\ result' = None
    /\ error' = None
    /\ hash' = HashEffect(<<>>, <<"A">>, updateHash(<<"A">>, <<>>))
    /\ cleared' = TRUE
    /\ UNCHANGED <<isLoading, initialLoadDone, pending, apiVars, fnVars>>

\* handleLookup from its await on, for the i-th lookup in flight: the body is
\* read, then the try / catch / finally runs to its end
LookupSettles(i, kind) ==
    /\ i \in 1..Len(pending)
    /\ pending' = [j \in 1..(Len(pending) - 1) |->
                      IF j < i THEN pending[j] ELSE pending[j + 1]]
    /\ CASE kind = "success" ->
               /\ result' = Some([domain |-> pending[i].domain,
                                  recordType |-> pending[i].type])
               /\ UNCHANGED error
         [] kind = "failure" ->
               /\ error' = Some("Non-existent domain")
               /\ UNCHANGED result
         [] kind = "failure-no-text" ->
               /\ error' = Some("DNS lookup failed")
               /\ UNCHANGED result
         [] kind = "throw" ->
               /\ error' = Some("Failed to perform DNS lookup")
               /\ UNCHANGED result
    /\ isLoading' = FALSE
    /\ UNCHANGED <<domain, recordType, resolver, dnssecValidate,
                   initialLoadDone, hash, cleared, apiVars, fnVars>>

NextUI ==
    \/ Mount
    \/ \E h \in HashInputs : HashChange(h)
    \/ \E d \in DomainInputs : InputDomain(d)
    \/ \E t \in UiRecordTypes : SelectRecordType(t)
    \/ \E r \in UiResolvers : SelectResolver(r)
    \/ \E b \in BOOLEAN : SetDnssec(b)
    \/ ClickLookup
    \/ PressEnter
    \/ handleClear
    \/ \E i \in 1..MaxPending, kind \in ResponseKinds : LookupSettles(i, kind)

SpecUI == InitUI /\ [][NextUI]_vars

\* C8 (as claimed): at most one lookup is in flight at any time.
C8_AtMostOneInFlight == Len(pending) <= 1

\* C12 (as claimed): the error signal and the result signal are never both
\* non-null, so at most one of the error panel and the result panel shows.
C12_ErrorXorResult == ~(IsSome(error) /\ IsSome(result))

\* C13 (as claimed): isLoading is true exactly while a lookup is in flight:
\* true whenever a request was sent and its response is not yet handled,
\* false once no lookup is in flight.
C13_LoadingIffInFlight == isLoading <=> (pending # <<>>)

\* C14 (as claimed): after Clear, result and error stay null until the user
\* starts a new lookup; a response to a lookup started before Clear does not
\* repopulate them.
C14_ClearedStaysEmpty == cleared => (result = None /\ error = None)

============================================================================
